---- MODULE Spec2Model ----
(***************************************************************************)
(* The Search page controller of the web client: two text fields, a       *)
(* validated submit that POSTs them to /api/process, the handling of the  *)
(* response (or of its failure), the notification banner and the reset.   *)
(* Texts are sequences of one-character strings; the markdown document is *)
(* the sequence of the fragments the code concatenates.                   *)
(***************************************************************************)
EXTENDS Integers, Sequences, FiniteSets, TLC

VARIABLES url, query, showSummary, summaryContent, showNotification,
          notificationMessage, inflight, issued, console

vars == <<url, query, showSummary, summaryContent, showNotification,
          notificationMessage, inflight, issued, console>>

----------------------------------------------------------------------------
(* Bounds of the model *)

\* longest text drawn for a field in SpecInputs
MaxLen == 3
\* fetch calls one behaviour may issue
MaxRequests == 2
\* longest array drawn for a member of a response in SpecFormat
MaxItems == 2

\* the characters texts are made of: a whitespace, a scheme letter, the colon
Chars == {" ", "a", ":"}
Whitespace == {" "}
SchemeLetters == {"a"}

Texts == UNION {[1..n -> Chars] : n \in 0..MaxLen}

\* the values typed into the fields in Spec: empty, blank, malformed,
\* well-formed, well-formed with surrounding whitespace
UrlInputs == {<<>>, <<" ">>, <<"a", " ", "a">>, <<"a", ":">>, <<" ", "a", ":">>}
QueryInputs == {<<>>, <<" ">>, <<"a">>, <<"a", " ">>}

----------------------------------------------------------------------------
(* Library functions the handlers call *)

RECURSIVE trimStart(_)
trimStart(t) ==
  IF t # <<>> /\ Head(t) \in Whitespace THEN trimStart(Tail(t)) ELSE t

RECURSIVE trimEnd(_)
trimEnd(t) ==
  IF t # <<>> /\ t[Len(t)] \in Whitespace
  THEN trimEnd(SubSeq(t, 1, Len(t) - 1))
  ELSE t

\* String.prototype.trim
trim(t) == trimEnd(trimStart(t))

\* new URL(t) without a base does not throw: a scheme (a letter, then scheme
\* characters) ends at the first colon; the scheme is not a special one, so
\* whatever follows is an opaque path and is accepted
URLParses(t) ==
  \E i \in 2..Len(t) :
    /\ t[i] = ":"
    /\ \A j \in 1..(i - 1) : t[j] \in SchemeLetters

\* JSON.stringify({repo_url: url, feature_description: query})
RequestBody(u, q) == [repo_url |-> u, feature_description |-> q]

\* Response.ok
ok(response) == response.status \in 200..299

----------------------------------------------------------------------------
(* The notification texts *)

MsgFillBoth == "Please fill in both the URL and query fields."
MsgValidUrl == "Please enter a valid URL."
MsgReceive == "Failed to receive data."
MsgConnect == "Failed to connect to the server."

----------------------------------------------------------------------------
(* JSON values of a response body.  An optional member is a record with   *)
(* present = FALSE when the member is missing (undefined in the code).    *)

Str(s) == [present |-> TRUE, text |-> s]
Missing == [present |-> FALSE, text |-> ""]
Arr(items) == [present |-> TRUE, items |-> items]
NoArr == [present |-> FALSE, items |-> <<>>]

\* if (x): a missing member and the empty string are both falsy
Truthy(v) == v.present /\ v.text # ""

\* ${x} in a template literal
Interp(v) == IF v.present THEN v.text ELSE "undefined"

\* the backquote character, which a TLA+ string literal cannot hold
Backquote == "[backquote]"
Fence == <<Backquote, Backquote, Backquote>>

RECURSIVE fmtSteps(_)
fmtSteps(steps) ==
  IF steps = <<>> THEN <<>>
  ELSE LET step == Head(steps) IN
       <<ToString(step.step_number), ". ", Interp(step.description), "\n">>
       \o (IF Truthy(step.code_snippet)
           THEN Fence \o <<"ts\n", step.code_snippet.text, "\n">>
                \o Fence \o <<"\n">>
           ELSE <<>>)
       \o (IF Truthy(step.file_path)
           THEN <<"File: ", Backquote, step.file_path.text, Backquote, "\n">>
           ELSE <<>>)
       \o <<"\n">>
       \o fmtSteps(Tail(steps))

RECURSIVE fmtInstructions(_)
fmtInstructions(instructions) ==
  IF instructions = <<>> THEN <<>>
  ELSE LET instruction == Head(instructions) IN
       <<ToString(instruction.step_number), ". ",
         Interp(instruction.description), "\n">>
       \o (IF Truthy(instruction.code)
           THEN Fence \o <<"sh\n", instruction.code.text, "\n">>
                \o Fence \o <<"\n">>
           ELSE <<>>)
       \o <<"\n">>
       \o fmtInstructions(Tail(instructions))

RECURSIVE fmtChallenges(_)
fmtChallenges(challenges) ==
  IF challenges = <<>> THEN <<>>
  ELSE <<"- ", Head(challenges), "\n">> \o fmtChallenges(Tail(challenges))

RECURSIVE fmtFiles(_)
fmtFiles(files) ==
  IF files = <<>> THEN <<>>
  ELSE LET file == Head(files) IN
       <<"- **Path:** ", Backquote, Interp(file.path), Backquote, "\n",
         "  - **Importance:** ", Interp(file.importance), "\n",
         "  - **Reason:** ", Interp(file.reason), "\n">>
       \o (IF Truthy(file.content_preview)
           THEN <<"  - **Content Preview:**\n\n">> \o Fence
                \o <<"\n", file.content_preview.text, "\n">>
                \o Fence \o <<"\n">>
           ELSE <<>>)
       \o <<"\n">>
       \o fmtFiles(Tail(files))

\* for (const x of data.member) throws when the member is not iterable
FormatThrows(data) ==
  \/ ~data.implementation_steps.present
  \/ ~data.setup_instructions.present
  \/ ~data.potential_challenges.present
  \/ ~data.relevant_files.present

\* formatMarkdown with the setup instructions ahead of the implementation steps
formatMarkdownSetupFirst(data) ==
  <<"# ", Interp(data.repository_name), "\n\n">>
  \o <<"## Feature Summary\n", Interp(data.feature_summary), "\n\n">>
  \o <<"## Setup Instructions\n">>
  \o fmtInstructions(data.setup_instructions.items)
  \o <<"## Implementation Steps\n">>
  \o fmtSteps(data.implementation_steps.items)
  \o <<"## Potential Challenges\n">>
  \o fmtChallenges(data.potential_challenges.items)
  \o <<"\n">>
  \o <<"## Relevant Files\n">>
  \o fmtFiles(data.relevant_files.items)

\* the document built in the variable final
formatMarkdown(data) ==
  <<"# ", Interp(data.repository_name), "\n\n">>
  \o <<"## Feature Summary\n", Interp(data.feature_summary), "\n\n">>
  \o <<"## Implementation Steps\n">>
  \o fmtSteps(data.implementation_steps.items)
  \o <<"## Setup Instructions\n">>
  \o fmtInstructions(data.setup_instructions.items)
  \o <<"## Potential Challenges\n">>
  \o fmtChallenges(data.potential_challenges.items)
  \o <<"\n">>
  \o <<"## Relevant Files\n">>
  \o fmtFiles(data.relevant_files.items)

----------------------------------------------------------------------------
(* What the network may answer *)

\* the response of the round-trip scenario
PlanB ==
  [repository_name |-> Str("b"), feature_summary |-> Str("S"),
   implementation_steps |->
     Arr(<<[step_number |-> 1, description |-> Str("D"),
            code_snippet |-> Missing, file_path |-> Missing]>>),
   setup_instructions |-> Arr(<<>>),
   potential_challenges |-> Arr(<<>>),
   relevant_files |-> Arr(<<>>)]

\* a response with every optional member present
PlanFull ==
  [repository_name |-> Str("r"), feature_summary |-> Str("F"),
   implementation_steps |->
     Arr(<<[step_number |-> 1, description |-> Str("D1"),
            code_snippet |-> Str("x()"), file_path |-> Str("a.ts")],
           [step_number |-> 2, description |-> Str("D2"),
            code_snippet |-> Str(""), file_path |-> Missing]>>),
   setup_instructions |->
     Arr(<<[step_number |-> 1, description |-> Str("I1"),
            code |-> Str("npm i")]>>),
   potential_challenges |-> Arr(<<"c1", "c2">>),
   relevant_files |->
     Arr(<<[path |-> Str("p"), importance |-> Str("high"),
            reason |-> Str("why"), content_preview |-> Str("pv")]>>)]

\* a 2xx body without its implementation_steps array
PlanNoSteps == [PlanB EXCEPT !.implementation_steps = NoArr]

\* a 2xx body without its relevant_files array, the last one iterated
PlanNoFiles == [PlanFull EXCEPT !.relevant_files = NoArr]

Plans == {PlanB, PlanFull, PlanNoSteps, PlanNoFiles}

SeqsUpTo(S, n) == UNION {[1..k -> S] : k \in 0..n}

\* implementation steps with the optional members missing, empty and filled
StepOptions ==
  {[step_number |-> 1, description |-> Str("D"),
    code_snippet |-> Missing, file_path |-> Missing],
   [step_number |-> 2, description |-> Str("D"),
    code_snippet |-> Str(""), file_path |-> Str("a.ts")],
   [step_number |-> 3, description |-> Str("D"),
    code_snippet |-> Str("x()"), file_path |-> Str("")],
   [step_number |-> 4, description |-> Str("D"),
    code_snippet |-> Str("x()"), file_path |-> Str("a.ts")]}

InstructionOptions ==
  {[step_number |-> 1, description |-> Str("I"), code |-> Missing],
   [step_number |-> 2, description |-> Str("I"), code |-> Str("")],
   [step_number |-> 3, description |-> Str("I"), code |-> Str("npm i")]}

ChallengeOptions == {"c1", "c2"}

FileOptions ==
  {[path |-> Str("p"), importance |-> Str("high"), reason |-> Str("why"),
    content_preview |-> Missing],
   [path |-> Str("q"), importance |-> Str("high"), reason |-> Str("why"),
    content_preview |-> Str("")],
   [path |-> Str("r"), importance |-> Str("low"), reason |-> Str("why"),
    content_preview |-> Str("pv")]}

\* structured responses: PlanB with one of its arrays replaced
PlanSpace ==
  {PlanB, PlanFull}
  \cup {[PlanB EXCEPT !.implementation_steps = Arr(x)] :
          x \in SeqsUpTo(StepOptions, MaxItems)}
  \cup {[PlanB EXCEPT !.setup_instructions = Arr(x)] :
          x \in SeqsUpTo(InstructionOptions, MaxItems)}
  \cup {[PlanB EXCEPT !.potential_challenges = Arr(x)] :
          x \in SeqsUpTo(ChallengeOptions, MaxItems)}
  \cup {[PlanB EXCEPT !.relevant_files = Arr(x)] :
          x \in SeqsUpTo(FileOptions, MaxItems)}

Statuses == {200, 404, 500}

\* rejected: fetch() rejects; parses: response.json() resolves with data
Outcomes ==
  {[rejected |-> TRUE, status |-> 0, parses |-> FALSE, data |-> PlanB]}
  \cup [rejected : {FALSE}, status : {s \in Statuses : s \in 200..299},
        parses : {TRUE}, data : Plans]
  \cup [rejected : {FALSE}, status : Statuses, parses : {FALSE}, data : {PlanB}]

\* the outcomes of SpecFormat: those of Spec and every structured success
FormatOutcomes ==
  Outcomes
  \cup [rejected : {FALSE}, status : {200}, parses : {TRUE}, data : PlanSpace]

----------------------------------------------------------------------------
(* The controller *)

\* the six useState cells of Search
ctrl ==
  [url |-> url, query |-> query, showSummary |-> showSummary,
   summaryContent |-> summaryContent, showNotification |-> showNotification,
   notificationMessage |-> notificationMessage]

\* the next render sees the cells as the handler left them
Render(s) ==
  /\ url' = s.url
  /\ query' = s.query
  /\ showSummary' = s.showSummary
  /\ summaryContent' = s.summaryContent
  /\ showNotification' = s.showNotification
  /\ notificationMessage' = s.notificationMessage

notify(s, message) ==
  [s EXCEPT !.notificationMessage = message, !.showNotification = TRUE]

\* validate with the emptiness test made on the untrimmed fields
validateNoTrim(s) ==
  IF s.url = <<>> \/ s.query = <<>> THEN "blank"
  ELSE IF ~URLParses(trim(s.url)) THEN "badurl"
  ELSE "fetch"

\* validate without the new URL(...) test
validateNoUrlCheck(s) ==
  IF trim(s.url) = <<>> \/ trim(s.query) = <<>> THEN "blank" ELSE "fetch"

\* handleSubmit up to the fetch call: "blank", "badurl" or "fetch"
validate(s) ==
  LET trimmedUrl == trim(s.url)
      trimmedQuery == trim(s.query)
  IN IF trimmedUrl = <<>> \/ trimmedQuery = <<>> THEN "blank"
     ELSE IF ~URLParses(trimmedUrl) THEN "badurl"
     ELSE "fetch"

\* submitBody with the trimmed values in place of the fields
submitBodyTrimmed(s) == RequestBody(trim(s.url), trim(s.query))

\* the body handleSubmit hands to fetch
submitBody(s) == RequestBody(s.url, s.query)

\* afterFetch without setShowNotification(false) on success
afterFetchKeepsNotification(s, outcome) ==
  IF outcome.rejected THEN notify(s, MsgConnect)
  ELSE IF ~ok(outcome) THEN notify(s, MsgReceive)
  ELSE IF ~outcome.parses \/ FormatThrows(outcome.data)
       THEN notify(s, MsgConnect)
  ELSE [s EXCEPT !.summaryContent = formatMarkdown(outcome.data),
                 !.showSummary = TRUE]

\* afterFetch without the return that ends the !response.ok branch
afterFetchNoReturn(s, outcome) ==
  IF outcome.rejected THEN notify(s, MsgConnect)
  ELSE IF ~outcome.parses \/ FormatThrows(outcome.data)
       THEN notify(s, MsgConnect)
  ELSE [(IF ok(outcome) THEN s ELSE notify(s, MsgReceive))
          EXCEPT !.showNotification = FALSE,
                 !.summaryContent = formatMarkdown(outcome.data),
                 !.showSummary = TRUE]

\* afterFetch whose catch shows the message of the !response.ok branch
afterFetchCatchReceive(s, outcome) ==
  IF outcome.rejected THEN notify(s, MsgReceive)
  ELSE IF ~ok(outcome) THEN notify(s, MsgReceive)
  ELSE IF ~outcome.parses \/ FormatThrows(outcome.data)
       THEN notify(s, MsgReceive)
  ELSE [s EXCEPT !.showNotification = FALSE,
                 !.summaryContent = formatMarkdown(outcome.data),
                 !.showSummary = TRUE]

\* afterFetch with response.json() and the formatting outside the try block
afterFetchUncaught(s, outcome) ==
  IF outcome.rejected THEN notify(s, MsgConnect)
  ELSE IF ~ok(outcome) THEN notify(s, MsgReceive)
  ELSE IF ~outcome.parses \/ FormatThrows(outcome.data) THEN s
  ELSE [s EXCEPT !.showNotification = FALSE,
                 !.summaryContent = formatMarkdown(outcome.data),
                 !.showSummary = TRUE]

\* handleSubmit after the awaits, given how the request ended
afterFetch(s, outcome) ==
  IF outcome.rejected THEN notify(s, MsgConnect)
  ELSE IF ~ok(outcome) THEN notify(s, MsgReceive)
  ELSE IF ~outcome.parses \/ FormatThrows(outcome.data)
       THEN notify(s, MsgConnect)
  ELSE [s EXCEPT !.showNotification = FALSE,
                 !.summaryContent = formatMarkdown(outcome.data),
                 !.showSummary = TRUE]

\* console.error(response.status)
afterFetchLog(log, outcome) ==
  IF ~outcome.rejected /\ ~ok(outcome) THEN Append(log, outcome.status)
  ELSE log

\* resetForm without setNotificationMessage("")
resetFormKeepsMessage(s) ==
  [s EXCEPT !.query = <<>>, !.showSummary = FALSE,
            !.showNotification = FALSE]

\* resetForm that flips the view instead of setting it
resetFormToggles(s) ==
  [s EXCEPT !.query = <<>>, !.showSummary = ~s.showSummary,
            !.showNotification = FALSE, !.notificationMessage = ""]

\* resetForm that also clears the stored result text
resetFormClearsContent(s) ==
  [s EXCEPT !.query = <<>>, !.showSummary = FALSE, !.summaryContent = <<>>,
            !.showNotification = FALSE, !.notificationMessage = ""]

\* resetForm without setShowNotification(false)
resetFormKeepsVisible(s) ==
  [s EXCEPT !.query = <<>>, !.showSummary = FALSE,
            !.notificationMessage = ""]

\* setQuery(""), setShowSummary(false), setShowNotification(false),
\* setNotificationMessage("")
resetForm(s) ==
  [s EXCEPT !.query = <<>>, !.showSummary = FALSE,
            !.showNotification = FALSE, !.notificationMessage = ""]

\* onClose that clears the message as well
onCloseClearsMessage(s) ==
  [s EXCEPT !.showNotification = FALSE, !.notificationMessage = ""]

\* onClose={() => setShowNotification(false)}
onClose(s) == [s EXCEPT !.showNotification = FALSE]

----------------------------------------------------------------------------
(* State machine *)

Init ==
  /\ url = <<>>
  /\ query = <<>>
  /\ showSummary = FALSE
  /\ summaryContent = <<>>
  /\ showNotification = FALSE
  /\ notificationMessage = ""
  /\ inflight = <<>>
  /\ issued = 0
  /\ console = <<>>

\* the fields as a user may have left them before submitting
InitInputs ==
  /\ url \in Texts
  /\ query \in Texts
  /\ showSummary = FALSE
  /\ summaryContent = <<>>
  /\ showNotification = FALSE
  /\ notificationMessage = ""
  /\ inflight = <<>>
  /\ issued = 0
  /\ console = <<>>

\* InputField onChange of the URL field; the form is mounted
SetUrl(v) ==
  /\ ~showSummary
  /\ url' = v
  /\ UNCHANGED <<query, showSummary, summaryContent, showNotification,
                 notificationMessage, inflight, issued, console>>

\* InputField onChange of the query field; the form is mounted
SetQuery(v) ==
  /\ ~showSummary
  /\ query' = v
  /\ UNCHANGED <<url, showSummary, summaryContent, showNotification,
                 notificationMessage, inflight, issued, console>>

\* a loading flag that is up while a request is outstanding
loadingWhileOutstanding == DOMAIN inflight # {}

\* the loading prop InputForm receives: Search keeps no loading cell and
\* passes none, so the prop is undefined, which is falsy
loading == FALSE

\* <button type="submit" disabled={loading}>
SubmitDisabled == loading

\* the form's onSubmit: handleSubmit up to its first await
HandleSubmit ==
  /\ ~showSummary
  /\ ~SubmitDisabled
  /\ LET branch == validate(ctrl) IN
     IF branch = "blank"
     THEN /\ Render(notify(ctrl, MsgFillBoth))
          /\ UNCHANGED <<inflight, issued>>
     ELSE IF branch = "badurl"
     THEN /\ Render(notify(ctrl, MsgValidUrl))
          /\ UNCHANGED <<inflight, issued>>
     ELSE /\ issued < MaxRequests
          /\ issued' = issued + 1
          /\ inflight' = (issued + 1 :> submitBody(ctrl)) @@ inflight
          /\ Render(ctrl)
  /\ UNCHANGED console

\* a settled promise that stays among the pending ones
RemoveNothing(f, id) == f

\* the promise of request id has settled: it is pending no more
Remove(f, id) == [k \in DOMAIN f \ {id} |-> f[k]]

\* handleSubmit resumes for request id with the outcome of its fetch
HandleResponse(id, outcome) ==
  /\ id \in DOMAIN inflight
  /\ inflight' = Remove(inflight, id)
  /\ UNCHANGED issued
  /\ console' = afterFetchLog(console, outcome)
  /\ Render(afterFetch(ctrl, outcome))

\* a reset that drops the outstanding requests
ResetFormCancels ==
  /\ showSummary
  /\ Render(resetForm(ctrl))
  /\ inflight' = <<>>
  /\ UNCHANGED <<issued, console>>

\* the reset button of the summary window
ResetForm ==
  /\ showSummary
  /\ Render(resetForm(ctrl))
  /\ UNCHANGED <<inflight, issued, console>>

\* the close button of the notification
DismissNotification ==
  /\ showNotification
  /\ Render(onClose(ctrl))
  /\ UNCHANGED <<inflight, issued, console>>

Next ==
  \/ \E v \in UrlInputs : SetUrl(v)
  \/ \E v \in QueryInputs : SetQuery(v)
  \/ HandleSubmit
  \/ \E id \in 1..MaxRequests : \E outcome \in Outcomes :
       HandleResponse(id, outcome)
  \/ ResetForm
  \/ DismissNotification

Spec == Init /\ [][Next]_vars

\* a pending fetch settles sooner or later, and the continuation of
\* handleSubmit then runs
FairSpec ==
  /\ Spec
  /\ \A id \in 1..MaxRequests :
       WF_vars(\E outcome \in Outcomes : HandleResponse(id, outcome))

\* the network answers every request with a 2xx status
OkOutcomes == {outcome \in Outcomes : ~outcome.rejected /\ ok(outcome)}

NextOkStatus ==
  \/ \E v \in UrlInputs : SetUrl(v)
  \/ \E v \in QueryInputs : SetQuery(v)
  \/ HandleSubmit
  \/ \E id \in 1..MaxRequests : \E outcome \in OkOutcomes :
       HandleResponse(id, outcome)
  \/ ResetForm
  \/ DismissNotification

SpecOkStatus == Init /\ [][NextOkStatus]_vars

NextInputs ==
  \/ HandleSubmit
  \/ \E id \in 1..MaxRequests : \E outcome \in Outcomes :
       HandleResponse(id, outcome)
  \/ ResetForm
  \/ DismissNotification

SpecInputs == InitInputs /\ [][NextInputs]_vars

\* a well-formed URL and a query were submitted; the request is outstanding
InitFormat ==
  /\ url = <<"a", ":">>
  /\ query = <<"a">>
  /\ showSummary = FALSE
  /\ summaryContent = <<>>
  /\ showNotification = FALSE
  /\ notificationMessage = ""
  /\ inflight = <<RequestBody(<<"a", ":">>, <<"a">>)>>
  /\ issued = 1
  /\ console = <<>>

NextFormat ==
  \/ \E id \in 1..MaxRequests : \E outcome \in FormatOutcomes :
       HandleResponse(id, outcome)
  \/ ResetForm
  \/ DismissNotification

SpecFormat == InitFormat /\ [][NextFormat]_vars

----------------------------------------------------------------------------
(* What the page renders *)

\* {!showSummary && <InputForm .../>}
FormShown == ~showSummary
\* {showSummary && <SummaryWindow .../>}
ResultShown == showSummary
\* {showNotification && <Notification .../>}
NotificationShown == showNotification

----------------------------------------------------------------------------
(* Properties *)

\* every character of t is a whitespace: t is empty after trimming
IsBlank(t) == \A i \in 1..Len(t) : t[i] = " "

\* the four arrays the formatter iterates are there
WellFormed(data) ==
  /\ data.implementation_steps.present
  /\ data.setup_instructions.present
  /\ data.potential_challenges.present
  /\ data.relevant_files.present

\* a step of handleSubmit that passes both validations
ValidSubmit ==
  HandleSubmit /\ ~IsBlank(url) /\ ~IsBlank(query) /\ URLParses(trim(url))

\* C1: a submit with a well-formed URL and a non-blank query issues exactly
\* one request, whose body holds the two field values as they are at the
\* submit (raw, untrimmed); nothing but such a submit issues a request, and
\* the body of an outstanding request never changes afterwards.
C1_OneRequestPerValidSubmit ==
  [][ /\ ValidSubmit =>
           /\ issued' = issued + 1
           /\ DOMAIN inflight' = DOMAIN inflight \cup {issued'}
           /\ issued' \notin DOMAIN inflight
           /\ inflight'[issued'] =
                [repo_url |-> url, feature_description |-> query]
      /\ (issued' # issued \/ ~(DOMAIN inflight' \subseteq DOMAIN inflight))
           => ValidSubmit
      /\ \A id \in DOMAIN inflight \cap DOMAIN inflight' :
           inflight'[id] = inflight[id]
    ]_vars

\* C1 witness: a request is outstanding whose body holds the URL with its
\* leading blank, and the URL field has been edited since.
C1_Witness ==
  /\ 1 \in DOMAIN inflight
  /\ inflight[1].repo_url = <<" ", "a", ":">>
  /\ inflight[1].feature_description = <<"a", " ">>
  /\ url # inflight[1].repo_url

\* C2: a submit with a blank URL or a blank query issues no request, shows
\* the "fill in both" notification and leaves the form showing.
C2_BlankFieldRejected ==
  [][ (HandleSubmit /\ (IsBlank(url) \/ IsBlank(query))) =>
        /\ issued' = issued
        /\ inflight' = inflight
        /\ showNotification'
        /\ notificationMessage' =
             "Please fill in both the URL and query fields."
        /\ FormShown'
    ]_vars

\* C2 witness: a well-formed URL with a whitespace-only query was submitted.
C2_Witness ==
  /\ url = <<"a", ":">>
  /\ query = <<" ", " ">>
  /\ showNotification
  /\ notificationMessage = MsgFillBoth
  /\ issued = 0

\* C3: a submit with two non-blank fields whose trimmed URL does not parse
\* issues no request, shows the "valid URL" notification and leaves the form
\* showing.
C3_MalformedUrlRejected ==
  [][ (HandleSubmit /\ ~IsBlank(url) /\ ~IsBlank(query)
         /\ ~URLParses(trim(url))) =>
        /\ issued' = issued
        /\ inflight' = inflight
        /\ showNotification'
        /\ notificationMessage' = "Please enter a valid URL."
        /\ FormShown'
    ]_vars

\* C3 witness: the URL "a a" (words, no scheme) was submitted with a query.
C3_Witness ==
  /\ url = <<"a", " ", "a">>
  /\ ~IsBlank(query)
  /\ showNotification
  /\ notificationMessage = MsgValidUrl
  /\ issued = 0

\* C4: handling a 2xx response whose body parses and is well formed ends
\* with the result panel shown, its content the document formatted from that
\* response, and the notification hidden.
C4_SuccessShowsResult ==
  [][ \A id \in 1..MaxRequests : \A outcome \in Outcomes :
        (/\ ~outcome.rejected
         /\ outcome.status \in 200..299
         /\ outcome.parses
         /\ WellFormed(outcome.data)
         /\ HandleResponse(id, outcome)) =>
          /\ ResultShown'
          /\ summaryContent' = formatMarkdown(outcome.data)
          /\ ~NotificationShown'
    ]_vars

\* C4 witness: the result of the full plan is shown with the notification
\* hidden, after a "failed to receive" notification had been set.
C4_Witness ==
  /\ showSummary
  /\ summaryContent = formatMarkdown(PlanFull)
  /\ ~showNotification
  /\ notificationMessage = MsgReceive

\* a step that handles a response with a non-2xx status
HandlesNotOk(id, outcome) ==
  /\ ~outcome.rejected
  /\ outcome.status \notin 200..299
  /\ HandleResponse(id, outcome)

C7_ResetClears ==
  LET s == resetForm(ctrl) IN
    /\ s.query = <<>>
    /\ ~s.showSummary
    /\ ~s.showNotification
    /\ s.notificationMessage = ""
    /\ s.url = url

\* C7 witness: a result was shown and reset: the form is back, the fields of
\* the reset are clear and the URL is still there.
C7_Witness ==
  /\ ~showSummary
  /\ summaryContent # <<>>
  /\ url = <<" ", "a", ":">>
  /\ query = <<>>
  /\ ~showNotification
  /\ notificationMessage = ""

\* C8: dismissing the notification hides it and changes nothing else: not
\* the fields, the result, the view, the message, or the outstanding
\* requests.
C8_DismissOnlyHides ==
  [][ DismissNotification =>
        /\ ~showNotification'
        /\ url' = url
        /\ query' = query
        /\ summaryContent' = summaryContent
        /\ showSummary' = showSummary
        /\ notificationMessage' = notificationMessage
        /\ inflight' = inflight
        /\ issued' = issued
    ]_vars

\* C8 witness: a "valid URL" notification was dismissed while a request is
\* outstanding: hidden, message kept.
C8_Witness ==
  /\ ~showNotification
  /\ notificationMessage = MsgValidUrl
  /\ summaryContent = <<>>
  /\ DOMAIN inflight # {}

\* C9: from every state that shows the result, resetting twice gives the
\* same controller state as resetting once.
C9_ResetIdempotent ==
  ResultShown => resetForm(resetForm(ctrl)) = resetForm(ctrl)

\* C9 witness: a result is shown under a visible notification with a query
\* still in the field, so that a reset changes every cell it writes.
C9_Witness ==
  /\ showSummary
  /\ showNotification
  /\ notificationMessage # ""
  /\ query # <<>>

\* C10 as stated: the result panel is shown exactly when result text is
\* stored, the form exactly when none is.
C10_Original ==
  /\ ResultShown <=> summaryContent # <<>>
  /\ FormShown <=> summaryContent = <<>>

\* C10 amended: the view is stored in its own flag.  Whenever the result
\* panel is shown, the stored result text is the document of a well-formed
\* success response, hence present; the converse fails, because reset
\* brings the form back and leaves the stored result text as it was.
C10_ViewFlagStored ==
  /\ [](ResultShown =>
          /\ summaryContent # <<>>
          /\ \E data \in Plans :
               WellFormed(data) /\ summaryContent = formatMarkdown(data))
  /\ [][ResetForm => (FormShown' /\ summaryContent' = summaryContent)]_vars

\* C10 witness: the form is showing while result text is still stored.
C10_Witness ==
  /\ FormShown
  /\ summaryContent = formatMarkdown(PlanB)

\* the controller is Submitting: a request is outstanding
Submitting == DOMAIN inflight # {}

\* C11 as stated: the loading flag is true exactly while a request is
\* outstanding, and the submit control is disabled exactly in those states.
C11_Original ==
  /\ loading <=> Submitting
  /\ SubmitDisabled <=> Submitting

\* the optional member is there / is there and not empty
IsPresent(v) == v.present
IsNonEmpty(v) == v.present /\ v.text # ""

\* the entries of a section one after the other, in the order of the array
RECURSIVE Flatten(_)
Flatten(entries) ==
  IF Len(entries) = 0 THEN <<>>
  ELSE entries[1] \o Flatten(SubSeq(entries, 2, Len(entries)))

\* a fenced block tagged lang holding the text of v, if v is to be emitted
FencedBlock(lang, v, Emitted(_)) ==
  IF Emitted(v)
  THEN <<Backquote, Backquote, Backquote, lang, v.text, "\n",
         Backquote, Backquote, Backquote, "\n">>
  ELSE <<>>

\* the document the claim describes for a structured response, where
\* Emitted says for which optional members a block or annotation appears
Document(data, Emitted(_)) ==
  LET steps == data.implementation_steps.items
      instructions == data.setup_instructions.items
      challenges == data.potential_challenges.items
      files == data.relevant_files.items
      StepEntry(s) ==
        <<ToString(s.step_number), ". ", s.description.text, "\n">>
        \o FencedBlock("ts\n", s.code_snippet, Emitted)
        \o (IF Emitted(s.file_path)
            THEN <<"File: ", Backquote, s.file_path.text, Backquote, "\n">>
            ELSE <<>>)
        \o <<"\n">>
      InstructionEntry(s) ==
        <<ToString(s.step_number), ". ", s.description.text, "\n">>
        \o FencedBlock("sh\n", s.code, Emitted)
        \o <<"\n">>
      FileEntry(f) ==
        <<"- **Path:** ", Backquote, f.path.text, Backquote, "\n",
          "  - **Importance:** ", f.importance.text, "\n",
          "  - **Reason:** ", f.reason.text, "\n">>
        \o (IF Emitted(f.content_preview)
            THEN <<"  - **Content Preview:**\n\n">>
                 \o FencedBlock("\n", f.content_preview, Emitted)
            ELSE <<>>)
        \o <<"\n">>
  IN <<"# ", data.repository_name.text, "\n\n">>
     \o <<"## Feature Summary\n", data.feature_summary.text, "\n\n">>
     \o <<"## Implementation Steps\n">>
     \o Flatten([i \in 1..Len(steps) |-> StepEntry(steps[i])])
     \o <<"## Setup Instructions\n">>
     \o Flatten([i \in 1..Len(instructions) |->
                   InstructionEntry(instructions[i])])
     \o <<"## Potential Challenges\n">>
     \o Flatten([i \in 1..Len(challenges) |-> <<"- ", challenges[i], "\n">>])
     \o <<"\n">>
     \o <<"## Relevant Files\n">>
     \o Flatten([i \in 1..Len(files) |-> FileEntry(files[i])])

\* a step that handles the structured success response data
HandlesPlan(id, data) ==
  HandleResponse(id, [rejected |-> FALSE, status |-> 200, parses |-> TRUE,
                      data |-> data])

\* the document of the scenario begins with "# b" and holds
\* "## Feature Summary\nS"
ScenarioDocument(doc) ==
  /\ SubSeq(doc, 1, 2) = <<"# ", "b">>
  /\ \E i \in 1..(Len(doc) - 1) :
       doc[i] = "## Feature Summary\n" /\ doc[i + 1] = "S"

\* C12 as stated: the document formatted from a structured response has the
\* six sections in their order, one entry per array element in input order,
\* and a code block or file annotation exactly for the optional members that
\* are present.
C12_Original ==
  [][ \A id \in 1..MaxRequests : \A data \in PlanSpace :
        HandlesPlan(id, data) =>
          summaryContent' = Document(data, IsPresent)
    ]_vars

\* C12 amended: as stated, except that a code block or file annotation is
\* emitted exactly for the optional members that are present and not empty;
\* the document of the scenario begins with "# b" and holds
\* "## Feature Summary\nS".
C12_DocumentStructure ==
  [][ \A id \in 1..MaxRequests : \A data \in PlanSpace :
        HandlesPlan(id, data) =>
          /\ summaryContent' = Document(data, IsNonEmpty)
          /\ data = PlanB => ScenarioDocument(summaryContent')
    ]_vars

\* C12 witness: the result shows the document of two steps in their input
\* order, the first with a snippet and a file, the second with neither.
C12_Witness ==
  /\ showSummary
  /\ summaryContent =
       <<"# ", "b", "\n\n", "## Feature Summary\n", "S", "\n\n",
         "## Implementation Steps\n",
         "4", ". ", "D", "\n",
         Backquote, Backquote, Backquote, "ts\n", "x()", "\n",
         Backquote, Backquote, Backquote, "\n",
         "File: ", Backquote, "a.ts", Backquote, "\n", "\n",
         "1", ". ", "D", "\n", "\n",
         "## Setup Instructions\n",
         "## Potential Challenges\n", "\n",
         "## Relevant Files\n">>

\* the fields pass both validations of handleSubmit
FieldsValid == ~IsBlank(url) /\ ~IsBlank(query) /\ URLParses(trim(url))

HandlesFailure(id, outcome) ==
  /\ (outcome.rejected \/ outcome.status \notin 200..299
        \/ ~outcome.parses \/ ~WellFormed(outcome.data))
  /\ HandleResponse(id, outcome)

\* C14: a reset leaves every outstanding request outstanding, and a response
\* is applied the same way in every state, after a reset as before it: a
\* success shows the result again and leaves the (cleared) query as it is, a
\* failure makes the notification visible; neither touches the fields.
C14_ResetKeepsRequests ==
  /\ [][ResetForm => (inflight' = inflight /\ issued' = issued)]_vars
  /\ [][ \A id \in 1..MaxRequests : \A outcome \in Outcomes :
          /\ (~outcome.rejected /\ outcome.status \in 200..299
                /\ outcome.parses /\ WellFormed(outcome.data)
                /\ HandleResponse(id, outcome))
               => /\ ResultShown'
                  /\ summaryContent' = formatMarkdown(outcome.data)
                  /\ query' = query
                  /\ url' = url
          /\ HandlesFailure(id, outcome)
               => /\ NotificationShown'
                  /\ notificationMessage' \in {MsgReceive, MsgConnect}
                  /\ ResultShown' = ResultShown
                  /\ query' = query
                  /\ url' = url
       ]_vars

\* C14 witness: the second request succeeded and its result was reset while
\* the first request is still outstanding: the form is back, the query is
\* cleared, and the request is there to be answered.
C14_Witness ==
  /\ issued = 2
  /\ DOMAIN inflight = {1}
  /\ FormShown
  /\ summaryContent # <<>>
  /\ query = <<>>
  /\ ~showNotification
  /\ notificationMessage = ""

\* the three ways the handling of a request ends
EndsInSuccess == ResultShown' /\ ~NotificationShown'
EndsInRejectedStatus == NotificationShown' /\ notificationMessage' = MsgReceive
EndsInTransportError == NotificationShown' /\ notificationMessage' = MsgConnect

\* C15: provided the network answers or fails each request, every
\* outstanding request is eventually outstanding no more; a request leaves
\* only by being handled (no edit, dismiss, reset or submit removes it), its
\* handling ends in exactly one of success, rejected status and transport
\* error, and a request once handled is never outstanding again.
C15_EveryRequestResolved ==
  /\ \A id \in 1..MaxRequests :
       (id \in DOMAIN inflight) ~> (id \notin DOMAIN inflight)
  /\ [][ \A id \in DOMAIN inflight :
          id \notin DOMAIN inflight' =>
            /\ \E outcome \in Outcomes : HandleResponse(id, outcome)
            /\ DOMAIN inflight' = DOMAIN inflight \ {id}
            /\ \/ EndsInSuccess /\ ~EndsInRejectedStatus
                                /\ ~EndsInTransportError
               \/ EndsInRejectedStatus /\ ~EndsInSuccess
                                       /\ ~EndsInTransportError
               \/ EndsInTransportError /\ ~EndsInSuccess
                                       /\ ~EndsInRejectedStatus
       ]_vars
  /\ [][ \A id \in 1..issued :
          id \notin DOMAIN inflight => id \notin DOMAIN inflight'
       ]_vars

\* C15 witness: both requests were issued and both have been handled, the
\* one with a logged status, the other with a result; the user reset after.
C15_Witness ==
  /\ issued = 2
  /\ inflight = <<>>
  /\ console = <<500>>
  /\ summaryContent = formatMarkdown(PlanB)
  /\ FormShown

\* C16: when the handling of a 2xx response throws (the body does not parse,
\* or an array the formatter iterates is missing), the notification shows
\* "Failed to connect to the server." and the result content and the view
\* are as they were before: no part of the document is shown.
C16_ThrowWhileHandlingCaught ==
  [][ \A id \in 1..MaxRequests : \A outcome \in OkOutcomes :
        (/\ (~outcome.parses \/ ~WellFormed(outcome.data))
         /\ HandleResponse(id, outcome)) =>
          /\ NotificationShown'
          /\ notificationMessage' = "Failed to connect to the server."
          /\ summaryContent' = summaryContent
          /\ ResultShown' = ResultShown
    ]_vars

\* C16 witness: every answer had a 2xx status, and yet the "failed to
\* connect" notification shows, over an earlier result left as it was.
C16_Witness ==
  /\ showNotification
  /\ notificationMessage = MsgConnect
  /\ showSummary
  /\ summaryContent = formatMarkdown(PlanB)
  /\ inflight = <<>>

\* a step in which something fails, and the text that failure shows
FailureStep(text) ==
  \/ /\ text = "Please fill in both the URL and query fields."
     /\ HandleSubmit /\ (IsBlank(url) \/ IsBlank(query))
  \/ /\ text = "Please enter a valid URL."
     /\ HandleSubmit /\ ~IsBlank(url) /\ ~IsBlank(query)
     /\ ~URLParses(trim(url))
  \/ /\ text = "Failed to receive data."
     /\ \E id \in DOMAIN inflight : \E outcome \in Outcomes :
          HandlesNotOk(id, outcome)
  \/ /\ text = "Failed to connect to the server."
     /\ \E id \in DOMAIN inflight : \E outcome \in Outcomes :
          /\ (outcome.rejected
                \/ (outcome.status \in 200..299
                     /\ (~outcome.parses \/ ~WellFormed(outcome.data))))
          /\ HandleResponse(id, outcome)

FailureTexts ==
  {"Please fill in both the URL and query fields.",
   "Please enter a valid URL.",
   "Failed to receive data.",
   "Failed to connect to the server."}

\* C17: a visible notification always carries one of the four texts, never
\* an empty one; the message is written only by a failure, which makes it
\* visible with the text of that failure, and by reset, which empties and
\* hides it; the notification is hidden only by dismiss, reset or the
\* handling of a success, and a valid submit leaves it as it is.
C17_NotificationText ==
  /\ [](NotificationShown => notificationMessage \in FailureTexts)
  /\ [][ \A text \in FailureTexts :
          FailureStep(text) =>
            (NotificationShown' /\ notificationMessage' = text)
       ]_vars
  /\ [][ notificationMessage' # notificationMessage =>
          \/ ResetForm /\ notificationMessage' = "" /\ ~NotificationShown'
          \/ \E text \in FailureTexts : FailureStep(text)
       ]_vars
  /\ [][ (NotificationShown /\ ~NotificationShown') =>
          \/ DismissNotification
          \/ ResetForm
          \/ \E id \in DOMAIN inflight : \E data \in Plans :
               WellFormed(data) /\ HandlesPlan(id, data)
       ]_vars
  /\ [][ValidSubmit => (NotificationShown' = NotificationShown)]_vars

\* C17 witness: the "valid URL" notification is still visible although the
\* corrected URL has been submitted and its request is outstanding.
C17_Witness ==
  /\ showNotification
  /\ notificationMessage = MsgValidUrl
  /\ issued = 1
  /\ DOMAIN inflight = {1}
  /\ inflight[1].repo_url = url
  /\ console = <<>>

====
